---- MODULE Spec2Model ----
(***************************************************************************)
(* Model of scripts/drop_tables.py: a command-line run that lists tables   *)
(* of a Trino metastore and drops them (dry run by default).               *)
(*                                                                         *)
(* Python strings are sequences of one-character strings, so that          *)
(* quoting, LIKE matching, strip() and lower() are computed character by   *)
(* character.  The server is the environment: it evaluates the WHERE       *)
(* clause of each listing query over its metastore and may reject any      *)
(* statement.                                                              *)
(***************************************************************************)
EXTENDS Integers, Sequences, FiniteSets, TLC

\* ------------------------------------------------------------------------
\* Bounds and input alphabets
\* ------------------------------------------------------------------------

\* largest number of rows of information_schema.tables
MaxTables == 2

\* Python's None (no string of the model is equal to it)
None == <<"None">>

DQ == "\""

Dune == <<"d", "u", "n", "e">>
DuneTmpA == <<"d", "u", "n", "e", "_", "_", "t", "m", "p", "_", "a">>
A_B == <<"a", "_", "b">>
AxB == <<"a", "x", "b">>
APct == <<"a", "%">>
AQuoteB == <<"a", DQ, "b">>
NameT == <<"t">>
NameQ == <<"q", DQ>>
Yes == <<"y", "e", "s">>

\* schema names that exist on the server
SchemaNames == {Dune, DuneTmpA, A_B, AxB, AQuoteB}

\* table names that exist on the server
TableNames == {NameT, NameQ}

TableTypes == {"BASE TABLE", "VIEW"}

\* values of --schema (None: flag absent; <<>>: the empty string)
SchemaArgs == {None, <<>>, Dune, DuneTmpA, A_B, APct, AQuoteB}

\* values of --table
TableArgs == {None, NameT, NameQ}

\* values of the DUNE_TEAM_NAME environment variable (None: unset)
TeamNames == {None, <<"a">>}

\* lines typed at the confirmation prompt, without the newline
Responses ==
    { Yes, <<"Y", "E", "S">>, <<" ", "Y", "e", "s", " ">>, <<"n", "o">>,
      <<>>, <<"y">>, <<"y", "e", "s", "!">> }

\* ways the input() call can end
PromptEvents == {"line", "EOFError", "KeyboardInterrupt"}

\* ------------------------------------------------------------------------
\* Strings
\* ------------------------------------------------------------------------

\* code points of the characters that occur in identifiers
Code(c) ==
    CASE c = DQ  -> 34
      [] c = "%" -> 37
      [] c = "_" -> 95
      [] c = "a" -> 97
      [] c = "b" -> 98
      [] c = "d" -> 100
      [] c = "e" -> 101
      [] c = "m" -> 109
      [] c = "n" -> 110
      [] c = "p" -> 112
      [] c = "q" -> 113
      [] c = "t" -> 116
      [] c = "u" -> 117
      [] c = "x" -> 120
      [] OTHER   -> 0

\* s < t in code point order (ORDER BY on varchar)
RECURSIVE StrLess(_, _)
StrLess(s, t) ==
    IF t = <<>> THEN FALSE
    ELSE IF s = <<>> THEN TRUE
    ELSE IF Head(s) # Head(t) THEN Code(Head(s)) < Code(Head(t))
    ELSE StrLess(Tail(s), Tail(t))

\* bool(x) of an Optional[str]
Truthy(x) == x # None /\ x # <<>>

\* c in s
Contains(s, c) == \E k \in 1..Len(s) : s[k] = c

\* str.lower() on the characters of the prompt answers
LowerChar(c) ==
    CASE c = "Y" -> "y"
      [] c = "E" -> "e"
      [] c = "S" -> "s"
      [] OTHER   -> c

Lower(s) == [k \in 1..Len(s) |-> LowerChar(s[k])]

RECURSIVE LStrip(_)
LStrip(s) == IF s # <<>> /\ Head(s) = " " THEN LStrip(Tail(s)) ELSE s

RECURSIVE RStrip(_)
RStrip(s) ==
    IF s # <<>> /\ s[Len(s)] = " " THEN RStrip(SubSeq(s, 1, Len(s) - 1)) ELSE s

\* str.strip()
Strip(s) == RStrip(LStrip(s))

\* SQL: s LIKE p, with _ for one character and % for any run of characters
RECURSIVE Like(_, _)
Like(s, p) ==
    IF p = <<>> THEN s = <<>>
    ELSE IF Head(p) = "%"
         THEN Like(s, Tail(p)) \/ (s # <<>> /\ Like(Tail(s), p))
    ELSE /\ s # <<>>
         /\ (Head(p) = "_" \/ Head(p) = Head(s))
         /\ Like(Tail(s), Tail(p))

\* ------------------------------------------------------------------------
\* The server: information_schema.tables and its queries
\* ------------------------------------------------------------------------

\* rows of dune.information_schema.tables
Rows ==
    [catalog : {Dune}, schema : SchemaNames, name : TableNames,
     type : TableTypes]

\* a metastore holds one object per (catalog, schema, name)
IsMetastore(ms) ==
    /\ Cardinality(ms) <= MaxTables
    /\ \A r1, r2 \in ms :
          (r1.schema = r2.schema /\ r1.name = r2.name) => r1 = r2

Metastores == {ms \in SUBSET Rows : IsMetastore(ms)}

\* order by table_schema, table_name
RowLess(r1, r2) ==
    \/ StrLess(r1.schema, r2.schema)
    \/ (r1.schema = r2.schema /\ StrLess(r1.name, r2.name))

RECURSIVE OrderBy(_)
OrderBy(S) ==
    IF S = {} THEN <<>>
    ELSE LET m == CHOOSE r \in S : \A o \in S \ {r} : RowLess(r, o)
         IN  <<m>> \o OrderBy(S \ {m})

\* the orders in which a query without ORDER BY may return the rows S
AnyOrder(S) ==
    {q \in [1..Cardinality(S) -> S] :
        \A j, k \in 1..Cardinality(S) : q[j] = q[k] => j = k}

\* the dict built from one result row
TableDict(row) == [schema |-> row.schema, name |-> row.name, type |-> row.type]

TableDicts(rows) == [k \in 1..Len(rows) |-> TableDict(rows[k])]

\* ------------------------------------------------------------------------
\* Functions of drop_tables.py
\* ------------------------------------------------------------------------

\* the list returned when the query succeeds on metastore ms
list_tables_by_pattern(ms, schema_pattern, catalog) ==
    TableDicts(OrderBy({r \in ms : /\ r.catalog = catalog
                                   /\ Like(r.schema, schema_pattern)}))

list_tables_by_schema(ms, schema, catalog) ==
    TableDicts(OrderBy({r \in ms : /\ r.catalog = catalog
                                   /\ r.schema = schema}))

\* list_specific_table without the table_name condition
list_specific_table_any_name(ms, schema, table_name, catalog) ==
    {TableDicts(q) : q \in AnyOrder({r \in ms : /\ r.catalog = catalog
                                                /\ r.schema = schema})}

\* the lists list_specific_table may return (the query has no ORDER BY)
list_specific_table(ms, schema, table_name, catalog) ==
    {TableDicts(q) : q \in AnyOrder({r \in ms : /\ r.catalog = catalog
                                                /\ r.schema = schema
                                                /\ r.name = table_name})}

\* quote_identifier that never raises
quote_identifier_unchecked(identifier) ==
    [raised |-> FALSE, value |-> <<DQ>> \o identifier \o <<DQ>>]

\* raised: ValueError; value: the quoted identifier
quote_identifier(identifier) ==
    IF Contains(identifier, DQ)
    THEN [raised |-> TRUE, value |-> None]
    ELSE [raised |-> FALSE, value |-> <<DQ>> \o identifier \o <<DQ>>]

\* the text of the DROP statement for quoted identifiers
DropStatement(table_type, quoted_catalog, quoted_schema, quoted_table) ==
    (IF table_type = "VIEW" THEN <<"drop view if exists ">>
                            ELSE <<"drop table if exists ">>)
    \o quoted_catalog \o <<".">> \o quoted_schema \o <<".">> \o quoted_table

\* drop_table_or_view that ignores dry_run
drop_table_or_view_always(schema, table_name, table_type, catalog, dry, server_ok) ==
    LET qc == quote_identifier(catalog)
        qs == quote_identifier(schema)
        qt == quote_identifier(table_name)
    IN  IF qc.raised \/ qs.raised \/ qt.raised
        THEN [success |-> FALSE, statement |-> None, executed |-> FALSE]
        ELSE [success |-> server_ok,
              statement |-> DropStatement(table_type, qc.value, qs.value, qt.value),
              executed |-> TRUE]

\* success: the return value; statement: the DROP statement built (None if
\* none was); executed: cursor.execute was called with it.  server_ok is the
\* server's answer to the statement.
drop_table_or_view(schema, table_name, table_type, catalog, dry, server_ok) ==
    LET qc == quote_identifier(catalog)
        qs == quote_identifier(schema)
        qt == quote_identifier(table_name)
    IN  IF qc.raised \/ qs.raised \/ qt.raised
        THEN [success |-> FALSE, statement |-> None, executed |-> FALSE]
        ELSE IF dry
        THEN [success |-> TRUE,
              statement |-> DropStatement(table_type, qc.value, qs.value, qt.value),
              executed |-> FALSE]
        ELSE [success |-> server_ok,
              statement |-> DropStatement(table_type, qc.value, qs.value, qt.value),
              executed |-> TRUE]

\* ------------------------------------------------------------------------
\* State of one run of main
\* ------------------------------------------------------------------------

VARIABLES
    pc,                 \* position in main
    metastore,          \* the server's information_schema.tables
    args,               \* argparse namespace: target, schema, table, execute
    dry_run, is_prod, schema_or_pattern, use_pattern,   \* locals of main
    api_key,            \* DuneTrinoConnection.api_key
    dune_conn,          \* "None", or "object" once the constructor returned
    connection,         \* "none", "open" or "closed"
    tables,             \* the list returned by the listing function
    response,           \* the normalised answer at the prompt
    prompted,           \* what input() delivered, one entry per prompt shown
    idx,                \* drop_tables: position of the for loop in tables
    success_count, failed_count,
    summary,            \* the dict returned by drop_tables
    attempts,           \* calls of drop_table_or_view so far, with results
    sent,               \* statements passed to cursor.execute, in order
    exc,                \* the exception that was raised in main ("none": none)
    ret,                \* value of the return statement being executed (-1: none)
    exit_code           \* exit status of the process (-1: still running)

vars ==
    <<pc, metastore, args, dry_run, is_prod, schema_or_pattern, use_pattern,
      api_key, dune_conn, connection, tables, response, prompted, idx,
      success_count, failed_count, summary, attempts, sent, exc, ret,
      exit_code>>

parsed == <<args, dry_run, is_prod, schema_or_pattern, use_pattern>>
connvars == <<api_key, dune_conn, connection>>
dropvars == <<idx, success_count, failed_count, summary, attempts>>
promptvars == <<response, prompted>>

\* summary before drop_tables has returned
NoSummary == [total |-> -1, success |-> -1, failed |-> -1]

NoArgs == [target |-> "dev", schema |-> None, table |-> None, execute |-> FALSE]

Init ==
    /\ pc = "parse_args"
    /\ metastore \in Metastores
    /\ args = NoArgs
    /\ dry_run = TRUE
    /\ is_prod = FALSE
    /\ schema_or_pattern = None
    /\ use_pattern = FALSE
    /\ api_key = None
    /\ dune_conn = "None"
    /\ connection = "none"
    /\ tables = <<>>
    /\ response = None
    /\ prompted = <<>>
    /\ idx = 0
    /\ success_count = 0
    /\ failed_count = 0
    /\ summary = NoSummary
    /\ attempts = <<>>
    /\ sent = <<>>
    /\ exc = "none"
    /\ ret = -1
    /\ exit_code = -1

\* values a user may give to --target; argparse accepts the choices only
TargetChoices == {"dev", "prod"}
TargetInputs == TargetChoices \cup {"staging"}

\* parser.parse_args() and the locals derived from the arguments
ParseArgs ==
    /\ pc = "parse_args"
    /\ \E target \in TargetInputs, schema \in SchemaArgs, table \in TableArgs,
          execute \in BOOLEAN, team_env \in TeamNames :
          IF target \notin TargetChoices
          THEN \* argparse prints the usage and exits with status 2
               /\ exc' = "SystemExit"
               /\ exit_code' = 2
               /\ pc' = "done"
               /\ UNCHANGED parsed
          ELSE LET dune_team_name == IF team_env = None THEN Dune ELSE team_env
                   default_dev_pattern ==
                       dune_team_name \o <<"_", "_", "t", "m", "p", "_", "%">>
                   default_prod_schema == dune_team_name
               IN  /\ args' = [target |-> target, schema |-> schema,
                               table |-> table, execute |-> execute]
                   /\ dry_run' = ~execute
                   /\ is_prod' = (target = "prod")
                   /\ IF Truthy(schema)
                      THEN /\ schema_or_pattern' = schema
                           /\ use_pattern' = ~Truthy(table)
                      ELSE IF target = "prod"
                      THEN /\ schema_or_pattern' = default_prod_schema
                           /\ use_pattern' = FALSE
                      ELSE /\ schema_or_pattern' = default_dev_pattern
                           /\ use_pattern' = TRUE
                   /\ pc' = "validate"
                   /\ UNCHANGED <<exc, exit_code>>
    /\ UNCHANGED <<metastore, connvars, tables, promptvars, dropvars, sent,
                   ret>>

\* the two validation conditions of main
TableWithoutSchema(a) == Truthy(a.table) /\ ~Truthy(a.schema)
ProdWithoutBoth(prod, a) == prod /\ (~Truthy(a.schema) \/ ~Truthy(a.table))

\* validation that lets prod through when one of the two flags is given
Validate_either ==
    /\ pc = "validate"
    /\ IF TableWithoutSchema(args)
          \/ (is_prod /\ ~Truthy(args.schema) /\ ~Truthy(args.table))
       THEN /\ exit_code' = 1
            /\ pc' = "done"
       ELSE /\ pc' = "connect"
            /\ UNCHANGED exit_code
    /\ UNCHANGED <<metastore, parsed, connvars, tables, promptvars, dropvars,
                   sent, exc, ret>>

\* validation: both checks return 1 before the try block
Validate ==
    /\ pc = "validate"
    /\ IF TableWithoutSchema(args) \/ ProdWithoutBoth(is_prod, args)
       THEN /\ exit_code' = 1
            /\ pc' = "done"
       ELSE /\ pc' = "connect"
            /\ UNCHANGED exit_code
    /\ UNCHANGED <<metastore, parsed, connvars, tables, promptvars, dropvars,
                   sent, exc, ret>>

\* values of --api-key and of the DUNE_API_KEY environment variable
ApiKeys == {None, <<>>, <<"k">>}

\* DuneTrinoConnection(api_key=args.api_key) and dune_conn.connect()
Connect ==
    /\ pc = "connect"
    /\ \E key_arg \in ApiKeys, key_env \in ApiKeys, connect_ok \in BOOLEAN :
          LET key == IF Truthy(key_arg) THEN key_arg ELSE key_env
          IN  IF ~Truthy(key)
              THEN \* the constructor raises ValueError: dune_conn stays None
                   /\ exc' = "ValueError"
                   /\ pc' = "except"
                   /\ UNCHANGED connvars
              ELSE /\ api_key' = key
                   /\ dune_conn' = "object"
                   /\ IF connect_ok
                      THEN /\ connection' = "open"
                           /\ pc' = "list"
                           /\ UNCHANGED exc
                      ELSE \* trino.dbapi.connect raises: self.connection stays None
                           /\ exc' = "connect"
                           /\ pc' = "except"
                           /\ UNCHANGED connection
    /\ UNCHANGED <<metastore, parsed, tables, promptvars, dropvars, sent, ret,
                   exit_code>>

\* a statement passed to cursor.execute
Select(query, params) == [kind |-> "select", text |-> <<query>>, params |-> params]
Drop(statement) == [kind |-> "drop", text |-> statement, params |-> <<>>]

\* the safety check with the dry_run test inverted
NeedsConfirmation_in_dry_run(prod, dry, tbls) == prod /\ dry /\ tbls # <<>>

\* the condition of the production safety check
NeedsConfirmation(prod, dry, tbls) == prod /\ ~dry /\ tbls # <<>>

\* the listing query main chooses, and the lists it may return
ListingQuery ==
    IF Truthy(args.table)
    THEN Select("list_specific_table", <<Dune, args.schema, args.table>>)
    ELSE IF use_pattern
    THEN Select("list_tables_by_pattern", <<Dune, schema_or_pattern>>)
    ELSE Select("list_tables_by_schema", <<Dune, schema_or_pattern>>)

ListingResults ==
    IF Truthy(args.table)
    THEN list_specific_table(metastore, args.schema, args.table, Dune)
    ELSE IF use_pattern
    THEN {list_tables_by_pattern(metastore, schema_or_pattern, Dune)}
    ELSE {list_tables_by_schema(metastore, schema_or_pattern, Dune)}

\* "Get tables to drop": one listing query, which the server may fail
ListTables ==
    /\ pc = "list"
    /\ sent' = Append(sent, ListingQuery)
    /\ \E query_ok \in BOOLEAN :
          IF ~query_ok
          THEN /\ exc' = "listing"
               /\ pc' = "except"
               /\ UNCHANGED <<tables, ret>>
          ELSE /\ \E result \in ListingResults : tables' = result
               /\ UNCHANGED exc
               /\ IF Truthy(args.table) /\ tables' = <<>>
                  THEN \* table not found
                       /\ ret' = 0
                       /\ pc' = "finally"
                  ELSE /\ pc' = IF NeedsConfirmation(is_prod, dry_run, tables')
                                THEN "confirm" ELSE "drop_tables"
                       /\ UNCHANGED ret
    /\ UNCHANGED <<metastore, parsed, connvars, promptvars, dropvars, exit_code>>

\* the prompt, cancelling only on an answer that starts with n
ConfirmPrompt_lenient ==
    /\ pc = "confirm"
    /\ \E event \in PromptEvents, line \in Responses :
          IF event = "line"
          THEN /\ response' = Lower(Strip(line))
               /\ prompted' = Append(prompted, line)
               /\ IF response' # <<>> /\ Head(response') = "n"
                  THEN /\ ret' = 0
                       /\ pc' = "finally"
                  ELSE /\ pc' = "drop_tables"
                       /\ UNCHANGED ret
          ELSE /\ prompted' = Append(prompted, <<event>>)
               /\ ret' = 0
               /\ pc' = "finally"
               /\ UNCHANGED response
    /\ UNCHANGED <<metastore, parsed, connvars, tables, dropvars, sent, exc,
                   exit_code>>

\* input("... Type 'yes' to confirm: ").strip().lower()
ConfirmPrompt ==
    /\ pc = "confirm"
    /\ \E event \in PromptEvents, line \in Responses :
          IF event = "line"
          THEN /\ response' = Lower(Strip(line))
               /\ prompted' = Append(prompted, line)
               /\ IF response' # Yes
                  THEN /\ ret' = 0
                       /\ pc' = "finally"
                  ELSE /\ pc' = "drop_tables"
                       /\ UNCHANGED ret
          ELSE \* input() raised KeyboardInterrupt or EOFError
               /\ prompted' = Append(prompted, <<event>>)
               /\ ret' = 0
               /\ pc' = "finally"
               /\ UNCHANGED response
    /\ UNCHANGED <<metastore, parsed, connvars, tables, dropvars, sent, exc,
                   exit_code>>

\* drop_tables up to the loop: the empty list returns at once
DropTablesEnter ==
    /\ pc = "drop_tables"
    /\ IF tables = <<>>
       THEN /\ summary' = [total |-> 0, success |-> 0, failed |-> 0]
            /\ pc' = "dropped"
            /\ UNCHANGED <<idx, success_count, failed_count>>
       ELSE /\ success_count' = 0
            /\ failed_count' = 0
            /\ idx' = 1
            /\ pc' = "loop"
            /\ UNCHANGED summary
    /\ UNCHANGED <<metastore, parsed, connvars, tables, promptvars, attempts,
                   sent, exc, ret, exit_code>>

\* the record kept of one call of drop_table_or_view
Attempt(table, result) ==
    [table |-> table, success |-> result.success,
     statement |-> result.statement, executed |-> result.executed]

\* one iteration of the loop that stops at the first failed drop
DropIter_abort ==
    /\ pc = "loop"
    /\ idx <= Len(tables)
    /\ \E server_ok \in BOOLEAN :
          LET table == tables[idx]
              result == drop_table_or_view(table.schema, table.name, table.type,
                                           Dune, dry_run, server_ok)
          IN  /\ attempts' = Append(attempts, Attempt(table, result))
              /\ sent' = IF result.executed
                         THEN Append(sent, Drop(result.statement)) ELSE sent
              /\ IF result.success
                 THEN /\ success_count' = success_count + 1
                      /\ idx' = idx + 1
                      /\ UNCHANGED failed_count
                 ELSE /\ failed_count' = failed_count + 1
                      /\ idx' = Len(tables) + 1
                      /\ UNCHANGED success_count
    /\ UNCHANGED <<pc, metastore, parsed, connvars, tables, promptvars, summary,
                   exc, ret, exit_code>>

\* one iteration of the loop that counts successful drops only
DropIter_uncounted ==
    /\ pc = "loop"
    /\ idx <= Len(tables)
    /\ \E server_ok \in BOOLEAN :
          LET table == tables[idx]
              result == drop_table_or_view(table.schema, table.name, table.type,
                                           Dune, dry_run, server_ok)
          IN  /\ attempts' = Append(attempts, Attempt(table, result))
              /\ sent' = IF result.executed
                         THEN Append(sent, Drop(result.statement)) ELSE sent
              /\ IF result.success
                 THEN /\ success_count' = success_count + 1
                      /\ UNCHANGED failed_count
                 ELSE UNCHANGED <<success_count, failed_count>>
    /\ idx' = idx + 1
    /\ UNCHANGED <<pc, metastore, parsed, connvars, tables, promptvars, summary,
                   exc, ret, exit_code>>

\* one iteration of "for table in tables": drop_table_or_view and the counters
DropIter ==
    /\ pc = "loop"
    /\ idx <= Len(tables)
    /\ \E server_ok \in BOOLEAN :
          LET table == tables[idx]
              result == drop_table_or_view(table.schema, table.name, table.type,
                                           Dune, dry_run, server_ok)
          IN  /\ attempts' = Append(attempts, Attempt(table, result))
              /\ sent' = IF result.executed
                         THEN Append(sent, Drop(result.statement)) ELSE sent
              /\ IF result.success
                 THEN /\ success_count' = success_count + 1
                      /\ UNCHANGED failed_count
                 ELSE /\ failed_count' = failed_count + 1
                      /\ UNCHANGED success_count
    /\ idx' = idx + 1
    /\ UNCHANGED <<pc, metastore, parsed, connvars, tables, promptvars, summary,
                   exc, ret, exit_code>>

\* the end of the loop: drop_tables returns its summary
DropTablesReturn ==
    /\ pc = "loop"
    /\ idx > Len(tables)
    /\ summary' = [total |-> Len(tables), success |-> success_count,
                   failed |-> failed_count]
    /\ pc' = "dropped"
    /\ UNCHANGED <<metastore, parsed, connvars, tables, promptvars, idx,
                   success_count, failed_count, attempts, sent, exc, ret,
                   exit_code>>

\* main after drop_tables: return 0
MainReturn ==
    /\ pc = "dropped"
    /\ ret' = 0
    /\ pc' = "finally"
    /\ UNCHANGED <<metastore, parsed, connvars, tables, promptvars, dropvars,
                   sent, exc, exit_code>>

\* an except clause that returns 0
Except_zero ==
    /\ pc = "except"
    /\ ret' = 0
    /\ pc' = "finally"
    /\ UNCHANGED <<metastore, parsed, connvars, tables, promptvars, dropvars,
                   sent, exc, exit_code>>

\* except Exception: log and return 1
Except ==
    /\ pc = "except"
    /\ ret' = 1
    /\ pc' = "finally"
    /\ UNCHANGED <<metastore, parsed, connvars, tables, promptvars, dropvars,
                   sent, exc, exit_code>>

\* DuneTrinoConnection.close: closes self.connection if there is one
Close(conn) == IF conn # "none" THEN "closed" ELSE conn

\* a finally clause that closes nothing
Finally_noclose ==
    /\ pc = "finally"
    /\ exit_code' = ret
    /\ pc' = "done"
    /\ UNCHANGED <<metastore, parsed, connvars, tables, promptvars, dropvars,
                   sent, exc, ret>>

\* finally: close the connection, then main returns
Finally ==
    /\ pc = "finally"
    /\ connection' = IF dune_conn # "None" THEN Close(connection) ELSE connection
    /\ exit_code' = ret
    /\ pc' = "done"
    /\ UNCHANGED <<metastore, parsed, api_key, dune_conn, tables, promptvars,
                   dropvars, sent, exc, ret>>

Next ==
    \/ ParseArgs
    \/ Validate
    \/ Connect
    \/ ListTables
    \/ ConfirmPrompt
    \/ DropTablesEnter
    \/ DropIter
    \/ DropTablesReturn
    \/ MainReturn
    \/ Except
    \/ Finally

Spec == Init /\ [][Next]_vars

TypeOK ==
    /\ pc \in {"parse_args", "validate", "connect", "list", "confirm",
               "drop_tables", "loop", "dropped", "except", "finally", "done"}
    /\ connection \in {"none", "open", "closed"}
    /\ exit_code \in {-1, 0, 1, 2}
    /\ idx \in 0..(MaxTables + 1)
    /\ Len(tables) <= MaxTables

\* ------------------------------------------------------------------------
\* Properties
\* ------------------------------------------------------------------------

Range(q) == {q[k] : k \in DOMAIN q}

DropsSent == {k \in DOMAIN sent : sent[k].kind = "drop"}

HasQuote(table) == Contains(table.schema, DQ) \/ Contains(table.name, DQ)

\* C1: in a dry run (no --execute) no DROP statement is executed: every call
\* of drop_table_or_view returns without calling cursor.execute, and the only
\* statement sent to the server is the one listing query.
C1_DryRunSendsNoDrop ==
    dry_run =>
        /\ DropsSent = {}
        /\ Len(sent) <= 1
        /\ \A k \in DOMAIN attempts : ~attempts[k].executed

C1_Witness ==
    /\ pc = "done"
    /\ dry_run
    /\ attempts # <<>>
    /\ attempts[1].success
    /\ attempts[1].statement # None
    /\ Len(sent) = 1

\* C2: with --target prod and --schema or --table absent, main returns 1
\* without creating a connection and without sending any statement,
\* whatever --execute is.
C2_ProdRequiresSchemaAndTable ==
    (pc # "parse_args" /\ args.target = "prod"
        /\ (args.schema = None \/ args.table = None)) =>
        /\ pc \in {"validate", "done"}
        /\ pc = "done" => exit_code = 1
        /\ dune_conn = "None"
        /\ connection = "none"
        /\ sent = <<>>

C2_Witness ==
    /\ pc = "done"
    /\ args.target = "prod"
    /\ args.schema # None
    /\ args.table = None
    /\ args.execute
    /\ exit_code = 1

\* the run was cancelled at the prompt: nothing dropped, main returns 0
Cancelled ==
    /\ pc \in {"finally", "done"}
    /\ ret = 0
    /\ pc = "done" => exit_code = 0
    /\ attempts = <<>>
    /\ DropsSent = {}

\* C3 as stated: at the production prompt any input other than exactly the
\* string yes (and end-of-input, and a keyboard interrupt) cancels the run:
\* main returns 0 and no DROP statement is executed.
C3_OnlyExactYesConfirms ==
    (prompted # <<>> /\ prompted[1] # Yes) => Cancelled

\* C3 amended: any input that is not yes once surrounding blanks are stripped
\* and letters are lower-cased (and end-of-input, and a keyboard interrupt)
\* cancels the run: main returns 0 and no DROP statement is executed.
C3_OnlyNormalisedYesConfirms ==
    (prompted # <<>> /\ Lower(Strip(prompted[1])) # Yes) => Cancelled

C3_Witness ==
    /\ pc = "done"
    /\ prompted = << <<"y">> >>
    /\ is_prod
    /\ ~dry_run
    /\ tables # <<>>
    /\ exit_code = 0
    /\ connection = "closed"

\* C4: for a listed table whose schema or table name contains a double quote,
\* drop_table_or_view returns False and no DROP statement is built or
\* executed, in dry-run and in execute mode; the table is counted as failed.
C4_QuoteInNameIsRejected ==
    /\ \A k \in DOMAIN attempts :
          HasQuote(attempts[k].table) =>
              /\ ~attempts[k].success
              /\ attempts[k].statement = None
              /\ ~attempts[k].executed
    /\ pc = "loop" =>
          failed_count >=
              Cardinality({k \in DOMAIN attempts : HasQuote(attempts[k].table)})
    /\ summary # NoSummary =>
          summary.failed >= Cardinality({k \in DOMAIN tables : HasQuote(tables[k])})

C4_Witness ==
    /\ pc = "done"
    /\ ~dry_run
    /\ \E k \in DOMAIN attempts : HasQuote(attempts[k].table)
    /\ \E k \in DOMAIN attempts : attempts[k].executed
    /\ summary.failed >= 1

\* C5: a failed drop (invalid identifier, or the server rejecting the DROP)
\* does not abort the run: drop_tables attempts every table of the list, in
\* list order, exactly once each, and then returns its summary.
C5_FailureDoesNotAbort ==
    /\ pc = "loop" =>
          /\ Len(attempts) = idx - 1
          /\ \A k \in DOMAIN attempts : attempts[k].table = tables[k]
    /\ summary # NoSummary =>
          /\ Len(attempts) = Len(tables)
          /\ \A k \in DOMAIN attempts : attempts[k].table = tables[k]

C5_Witness ==
    /\ pc = "done"
    /\ Len(tables) >= 2
    /\ attempts[1].executed
    /\ ~attempts[1].success
    /\ Len(attempts) = Len(tables)
    /\ summary # NoSummary

\* C6: the summary of drop_tables satisfies success + failed = total, where
\* total is the length of the input list (the empty list included); after
\* each loop iteration success + failed is the number of tables attempted.
C6_SummaryCountsAddUp ==
    /\ pc = "loop" => success_count + failed_count = Len(attempts)
    /\ summary # NoSummary =>
          /\ summary.total = Len(tables)
          /\ summary.success + summary.failed = summary.total

C6_Witness ==
    /\ pc = "done"
    /\ summary # NoSummary
    /\ summary.success >= 1
    /\ summary.failed >= 1

\* C7: in every run in which a connection was opened it is closed before
\* main returns (run completed, table not found, cancelled at the prompt,
\* exception), and no statement is sent on a connection that is not open.
C7_ConnectionAlwaysClosed ==
    /\ [](pc = "done" => connection # "open")
    /\ [][sent' # sent => connection = "open"]_vars

C7_Witness ==
    /\ pc = "done"
    /\ connection = "closed"
    /\ exc = "listing"
    /\ exit_code = 1

\* the run failed in one of the ways main reports with "return 1"
ReportedFailure ==
    \/ TableWithoutSchema(args)
    \/ ProdWithoutBoth(is_prod, args)
    \/ exc \in {"ValueError", "connect", "listing"}

\* a DROP statement failed, or a table was rejected for its name
DropFailed == \E k \in DOMAIN attempts : ~attempts[k].success

\* C8 as stated: every terminating run exits with 0 or 1: 1 on a validation
\* failure, a missing API key, a failure to connect or to list; 0 on every
\* successful and every cancelled run; errors are surfaced as exit code 1.
C8_ExitsZeroOrOneErrorsAsOne ==
    pc = "done" =>
        /\ exit_code \in {0, 1}
        /\ ReportedFailure => exit_code = 1
        /\ (~ReportedFailure /\ ~DropFailed) => exit_code = 0
        /\ DropFailed => exit_code = 1

\* C8 amended: every run that ends with main returning or argparse exiting
\* exits with 0, 1 or 2: 2 exactly when argparse rejects the command line,
\* 1 exactly on a validation failure, a missing API key, a failure to
\* connect or a failed listing query, and 0 otherwise, also when drops
\* failed (those are only counted in the summary).
C8_ExitCodes ==
    pc = "done" =>
        /\ exit_code \in {0, 1, 2}
        /\ exit_code = 2 <=> exc = "SystemExit"
        /\ exit_code = 1 <=> ReportedFailure

C8_Witness ==
    /\ pc = "done"
    /\ exit_code = 0
    /\ summary # NoSummary
    /\ summary.failed >= 1
    /\ \E k \in DOMAIN attempts : attempts[k].executed /\ ~attempts[k].success

\* the text of the DROP statements for catalog dune, schema s and object t
DropTexts(s, t) ==
    { <<verb, DQ>> \o Dune \o <<DQ, ".", DQ>> \o s \o <<DQ, ".", DQ>> \o t
        \o <<DQ>> : verb \in {"drop table if exists ", "drop view if exists "} }

\* C9: a prod run drops at most one table or view, and only the one named on
\* the command line: every DROP statement it executes targets the schema of
\* --schema and the table of --table, whatever the metastore holds.
C9_ProdDropsOnlyNamedTable ==
    is_prod =>
        /\ Len(tables) <= 1
        /\ Len(attempts) <= 1
        /\ Cardinality(DropsSent) <= 1
        /\ \A k \in DOMAIN attempts :
              /\ attempts[k].table.schema = args.schema
              /\ attempts[k].table.name = args.table
        /\ \A k \in DropsSent : sent[k].text \in DropTexts(args.schema, args.table)

C9_Witness ==
    /\ pc = "done"
    /\ is_prod
    /\ ~dry_run
    /\ Cardinality(metastore) >= 2
    /\ \A r \in metastore : r.schema = args.schema
    /\ Len(sent) = 2
    /\ sent[2].kind = "drop"

\* C10: with --schema S and no --table, the tables selected for dropping are
\* exactly the tables of the schema named S; no table of a schema with
\* another name is selected, also when S contains _ or %.
C10_SchemaSelectsExactSchema ==
    (pc = "drop_tables" /\ Truthy(args.schema) /\ ~Truthy(args.table)) =>
        Range(tables) = {TableDict(r) : r \in {m \in metastore : m.schema = args.schema}}


\* C11: in a prod run with --execute every executed DROP statement comes
\* after the listing query and then a confirmation prompt that was answered
\* affirmatively, in that order; the prompt is shown at most once per run,
\* and never in a dev run, in a dry run, or when no table was listed.
C11_DropAfterListingAndConfirmation ==
    /\ [](Len(prompted) <= 1)
    /\ [](prompted # <<>> =>
             /\ args.target = "prod"
             /\ args.execute
             /\ tables # <<>>)
    /\ [][prompted' # prompted =>
             /\ Len(sent) = 1
             /\ sent[1].kind = "select"
             /\ sent' = sent
             /\ attempts = <<>>]_vars
    /\ [][(args.target = "prod" /\ args.execute /\ sent' # sent
             /\ sent'[Len(sent')].kind = "drop") =>
             /\ Len(sent) >= 1
             /\ sent[1].kind = "select"
             /\ Len(prompted) = 1
             /\ Lower(Strip(prompted[1])) = Yes]_vars

C11_Witness ==
    /\ pc = "done"
    /\ args.target = "prod"
    /\ args.execute
    /\ prompted = << <<" ", "Y", "e", "s", " ">> >>
    /\ Len(sent) = 2
    /\ sent[1].kind = "select"
    /\ sent[2].kind = "drop"
    /\ exit_code = 0

====
